---- MODULE Spec2Model ----
(***************************************************************************)
(* Model of the to-do list page component, src/src/routes/+page.svelte.    *)
(*                                                                         *)
(* The component is a set of event handlers over reactive state.  Every    *)
(* handler runs to completion; the $effect that saves the collection runs  *)
(* after each handler that touched the collection and is folded into the   *)
(* handler's action (Persist).                                             *)
(*                                                                         *)
(* Strings are sequences of one-character strings, so that String.trim()   *)
(* is computed and not assumed.  Array indices are 1-based here (0-based   *)
(* in the source); findIndex returns 0 where the source returns -1.        *)
(***************************************************************************)
EXTENDS Integers, Sequences, FiniteSets

VARIABLES
    todos,          \* let todos = $state<Todo[]>([])
    filter,         \* let filter = $state("all")
    MSG,            \* let MSG = $state("")
    newTodoText,    \* let newTodoText = $state("")
    draggedTodoId,  \* let draggedTodoId: number | null = null
    hoveredTodoId,  \* let hoveredTodoId: number | null = $state(null)
    clock,          \* the last reading of Date.now()
    stored,         \* localStorage item "todos"
    phase,          \* where the page is in its life: "closed", "mounting", "ready"
    current_theme,  \* let current_theme = $state(...)
    storedTheme,    \* localStorage item "theme"
    variant,        \* which of the two page components is deployed
    consoleError    \* has the script of this page called console.error

\* the state of the page around the task list
page == <<phase, current_theme, storedTheme, variant, consoleError>>

vars == <<todos, filter, MSG, newTodoText, draggedTodoId, hoveredTodoId, clock, stored,
          phase, current_theme, storedTheme, variant, consoleError>>

---------------------------------------------------------------------------
(* Bounds of the model *)

MaxTodos == 3       \* addTodo is not taken on a collection of this length
MaxClock == 3       \* Date.now() readings are StartTime..MaxClock
FewTodos == 2       \* the length at which the smaller specifications stop adding
FewClock == 2       \* the last Date.now() reading of the smaller specifications

StartTime == 1      \* the reading of Date.now() when the page is opened

\* null, for a variable of type number | null (no reading of Date.now() is negative)
null == -1

\* Date.now() readings a handler can be given as task ids
Ids == StartTime..MaxClock

\* what the user can type into a text input
SPC == " "
NewInputs == { <<>>, <<SPC>>, <<SPC, "a", SPC>> }
EditInputs == { <<SPC>>, <<"b", SPC>> }

Filters == {"all", "completed", "incomplete"}

\* localStorage.getItem(key) of a key that is not stored
NoItem == "(no item)"

MsgNone       == ""
MsgEnterTask  == "Please enter a task"
MsgEmptyEdit  == "Task cannot be empty. Edit cancelled."

---------------------------------------------------------------------------
(* String.prototype.trim *)

IsSpace(c) == c = SPC

RECURSIVE trimStart(_)
trimStart(s) ==
    IF s = <<>> THEN <<>>
    ELSE IF IsSpace(Head(s)) THEN trimStart(Tail(s)) ELSE s

RECURSIVE trimEnd(_)
trimEnd(s) ==
    IF s = <<>> THEN <<>>
    ELSE IF IsSpace(s[Len(s)]) THEN trimEnd(SubSeq(s, 1, Len(s) - 1)) ELSE s

trim(s) == trimEnd(trimStart(s))

---------------------------------------------------------------------------
(* Array helpers *)

\* Array.prototype.findIndex(t => t.id === id); 0 when no element matches
findIndex(ts, id) ==
    IF \E i \in 1..Len(ts) : ts[i].id = id
    THEN CHOOSE i \in 1..Len(ts) :
            /\ ts[i].id = id
            /\ \A j \in 1..(i - 1) : ts[j].id # id
    ELSE 0

\* newTodos.splice(i, 1): the array without its i-th element
spliceOut(ts, i) == SubSeq(ts, 1, i - 1) \o SubSeq(ts, i + 1, Len(ts))

\* newTodos.splice(i, 0, x): x inserted so that it becomes the i-th element
spliceIn(ts, i, x) == SubSeq(ts, 1, i - 1) \o <<x>> \o SubSeq(ts, i, Len(ts))

---------------------------------------------------------------------------
(* Persistence: the $effect that saves the collection *)

\* a save that writes the task as it is in memory
stripTransientKeeps(t) == t

\* const { isEditing, editedText, ...rest } = todo; return rest
stripTransient(t) == [id |-> t.id, text |-> t.text, completed |-> t.completed]

\* JSON.stringify(todos.map(strip)): the stored value is the JSON array
todosToSave(ts) ==
    [kind |-> "json", value |-> [i \in 1..Len(ts) |-> stripTransient(ts[i])]]

\* the effect runs after every handler that assigned or mutated todos
Persist == stored' = todosToSave(todos')

---------------------------------------------------------------------------
(* Derived view *)

\* a view whose completed and incomplete branches are exchanged
filteredTodosSwapped(ts, f) ==
    IF f = "all" THEN ts
    ELSE IF f = "completed" THEN SelectSeq(ts, LAMBDA t : ~t.completed)
    ELSE IF f = "incomplete" THEN SelectSeq(ts, LAMBDA t : t.completed)
    ELSE ts

filteredTodosOf(ts, f) ==
    IF f = "all" THEN ts
    ELSE IF f = "completed" THEN SelectSeq(ts, LAMBDA t : t.completed)
    ELSE IF f = "incomplete" THEN SelectSeq(ts, LAMBDA t : ~t.completed)
    ELSE ts

filteredTodos == filteredTodosOf(todos, filter)

---------------------------------------------------------------------------
(* Initial state: the page opened on an empty store, after the first run   *)
(* of the saving effect                                                    *)

Init ==
    /\ todos = <<>>
    /\ filter = "all"
    /\ MSG = MsgNone
    /\ newTodoText = <<>>
    /\ draggedTodoId = null
    /\ hoveredTodoId = null
    /\ clock = StartTime
    /\ stored = todosToSave(<<>>)
    /\ phase = "ready"
    /\ current_theme = "light"
    /\ storedTheme = NoItem
    /\ variant = "edit"
    /\ consoleError = FALSE

---------------------------------------------------------------------------
(* Handlers *)

\* the handlers of the task list run on a mounted page and touch neither the
\* theme nor the page's life cycle
PageStays ==
    /\ phase = "ready"
    /\ UNCHANGED page

\* bind:value={newTodoText}: the user edits the new-task input
TypeNewTodo(s) ==
    /\ newTodoText' = s
    /\ newTodoText # s
    /\ UNCHANGED <<todos, filter, MSG, draggedTodoId, hoveredTodoId, clock, stored>>
    /\ PageStays

\* the task addTodo builds; now is the reading of Date.now()
newTodo(now, text) ==
    [id |-> now, text |-> text, completed |-> FALSE,
     isEditing |-> FALSE, editedText |-> text]

\* a rejected add that also clears the input buffer
addTodoRejectedClears ==
    /\ trim(newTodoText) = <<>>
    /\ MSG' = MsgEnterTask
    /\ newTodoText' = <<>>
    /\ UNCHANGED <<todos, filter, draggedTodoId, hoveredTodoId, clock, stored>>
    /\ PageStays

addTodoRejected ==
    /\ trim(newTodoText) = <<>>
    /\ MSG' = MsgEnterTask
    /\ UNCHANGED <<todos, filter, newTodoText, draggedTodoId, hoveredTodoId, clock, stored>>
    /\ PageStays

\* an add that stores the buffer as typed instead of the trimmed text
addTodoUntrimmed(now) ==
    /\ trim(newTodoText) # <<>>
    /\ Len(todos) < MaxTodos
    /\ MSG' = MsgNone
    /\ todos' = Append(todos, newTodo(now, newTodoText))
    /\ newTodoText' = <<>>
    /\ clock' = now
    /\ Persist
    /\ UNCHANGED <<filter, draggedTodoId, hoveredTodoId>>
    /\ PageStays

addTodoAccepted(now) ==
    /\ trim(newTodoText) # <<>>
    /\ Len(todos) < MaxTodos
    /\ MSG' = MsgNone
    /\ todos' = Append(todos, newTodo(now, trim(newTodoText)))
    /\ newTodoText' = <<>>
    /\ clock' = now
    /\ Persist
    /\ UNCHANGED <<filter, draggedTodoId, hoveredTodoId>>
    /\ PageStays

\* addTodo(); Date.now() returns a reading not before the previous one
addTodo ==
    \/ addTodoRejected
    \/ \E now \in clock..MaxClock : addTodoAccepted(now)

\* a removal by findIndex and splice: splice(-1, 1) takes the last element
removeTodoListSplice(ts, id) ==
    IF findIndex(ts, id) = 0
    THEN SubSeq(ts, 1, Len(ts) - 1)
    ELSE spliceOut(ts, findIndex(ts, id))

removeTodoList(ts, id) == SelectSeq(ts, LAMBDA t : t.id # id)

\* a removal that also clears the validation message
removeTodoClearsMsg(id) ==
    /\ todos' = removeTodoList(todos, id)
    /\ MSG' = MsgNone
    /\ Persist
    /\ UNCHANGED <<filter, newTodoText, draggedTodoId, hoveredTodoId, clock>>
    /\ PageStays

removeTodo(id) ==
    /\ todos' = removeTodoList(todos, id)
    /\ Persist
    /\ UNCHANGED <<filter, MSG, newTodoText, draggedTodoId, hoveredTodoId, clock>>
    /\ PageStays

\* what toggleChecked's callback returns for a task
toggleCheckedTodo(t, id) ==
    IF t.id = id THEN [t EXCEPT !.completed = ~t.completed] ELSE t

\* a toggle that also moves the toggled tasks to the end of the collection
toggleCheckedListSinks(ts, id) ==
    SelectSeq(ts, LAMBDA t : t.id # id)
        \o [i \in 1..Len(SelectSeq(ts, LAMBDA t : t.id = id)) |->
                toggleCheckedTodo(SelectSeq(ts, LAMBDA t : t.id = id)[i], id)]

toggleCheckedList(ts, id) == [i \in 1..Len(ts) |-> toggleCheckedTodo(ts[i], id)]

toggleChecked(id) ==
    /\ todos' = toggleCheckedList(todos, id)
    /\ Persist
    /\ UNCHANGED <<filter, MSG, newTodoText, draggedTodoId, hoveredTodoId, clock>>
    /\ PageStays

\* onclick={() => (filter = ...)}
SetFilter(f) ==
    /\ filter' = f
    /\ filter # f
    /\ UNCHANGED <<todos, MSG, newTodoText, draggedTodoId, hoveredTodoId, clock, stored>>
    /\ PageStays

---------------------------------------------------------------------------
(* Drag and drop *)

\* todos.find(t => t.id === id)?.isEditing
findIsEditing(ts, id) ==
    /\ findIndex(ts, id) # 0
    /\ ts[findIndex(ts, id)].isEditing

handleDragStart(id) ==
    /\ ~findIsEditing(todos, id)
    /\ draggedTodoId' = id
    /\ UNCHANGED <<todos, filter, MSG, newTodoText, hoveredTodoId, clock, stored>>
    /\ PageStays

\* a move that inserts the dragged task without removing it first
moveTodoCopies(ts, draggedIndex, targetIndex) ==
    spliceIn(ts, targetIndex, ts[draggedIndex])

\* the array handleDrop assigns to todos when both indices are found
moveTodo(ts, draggedIndex, targetIndex) ==
    spliceIn(spliceOut(ts, draggedIndex), targetIndex, ts[draggedIndex])

\* a drop that does not test targetIndex: splice(-1, 0, x) then inserts the
\* dragged task before the last element
handleDropListUnchecked(ts, dragged, targetId) ==
    IF dragged = null \/ dragged = targetId THEN ts
    ELSE IF findIndex(ts, dragged) # 0
         THEN IF findIndex(ts, targetId) # 0
              THEN moveTodo(ts, findIndex(ts, dragged), findIndex(ts, targetId))
              ELSE LET rest == spliceOut(ts, findIndex(ts, dragged))
                   IN  IF rest = <<>> THEN ts
                       ELSE spliceIn(rest, Len(rest), ts[findIndex(ts, dragged)])
         ELSE ts

\* the collection after handleDrop(targetId) with draggedTodoId = dragged
handleDropList(ts, dragged, targetId) ==
    IF dragged = null \/ dragged = targetId THEN ts
    ELSE IF findIndex(ts, dragged) # 0 /\ findIndex(ts, targetId) # 0
         THEN moveTodo(ts, findIndex(ts, dragged), findIndex(ts, targetId))
         ELSE ts

handleDrop(targetId) ==
    /\ hoveredTodoId' = null
    /\ todos' = handleDropList(todos, draggedTodoId, targetId)
    /\ draggedTodoId' = null
    /\ Persist
    /\ UNCHANGED <<filter, MSG, newTodoText, clock>>
    /\ PageStays

\* hoveredTodoId after handleDragOver(id): null over the dragged task itself
hoveredAfterOver(dragged, id) == IF dragged # id THEN id ELSE null

handleDragOver(id) ==
    /\ hoveredTodoId' = hoveredAfterOver(draggedTodoId, id)
    /\ UNCHANGED <<todos, filter, MSG, newTodoText, draggedTodoId, clock, stored>>
    /\ PageStays

\* a drag-leave that clears the hovered id whichever row is left
hoveredAfterLeaveAny(hovered, id) == null

\* hoveredTodoId after handleDragLeave(id): cleared when the hovered row is left
hoveredAfterLeave(hovered, id) == IF hovered = id THEN null ELSE hovered

handleDragLeave(id) ==
    /\ hoveredTodoId' = hoveredAfterLeave(hoveredTodoId, id)
    /\ UNCHANGED <<todos, filter, MSG, newTodoText, draggedTodoId, clock, stored>>
    /\ PageStays

handleDragEnd ==
    /\ draggedTodoId' = null
    /\ hoveredTodoId' = null
    /\ UNCHANGED <<todos, filter, MSG, newTodoText, clock, stored>>
    /\ PageStays

---------------------------------------------------------------------------
(* Editing *)

\* what editTodo's callback returns for a task
editTodoTodo(t, id) ==
    IF t.id = id
    THEN [t EXCEPT !.isEditing = TRUE, !.editedText = t.text]
    ELSE [t EXCEPT !.isEditing = FALSE]

editTodoList(ts, id) == [i \in 1..Len(ts) |-> editTodoTodo(ts[i], id)]

editTodo(id) ==
    /\ todos' = editTodoList(todos, id)
    /\ Persist
    /\ UNCHANGED <<filter, MSG, newTodoText, draggedTodoId, hoveredTodoId, clock>>
    /\ PageStays

\* the row of the filtered view that shows the i-th task of the collection
IsVisible(i) ==
    \/ filter = "all"
    \/ filter = "completed" /\ todos[i].completed
    \/ filter = "incomplete" /\ ~todos[i].completed

\* bind:value={todo.editedText} on the input shown for a task in edit mode
TypeEdit(i, s) ==
    /\ i \in 1..Len(todos)
    /\ IsVisible(i)
    /\ todos[i].isEditing
    /\ todos[i].editedText # s
    /\ todos' = [todos EXCEPT ![i].editedText = s]
    /\ Persist
    /\ UNCHANGED <<filter, MSG, newTodoText, draggedTodoId, hoveredTodoId, clock>>
    /\ PageStays

\* what saveEdit's callback returns for a task whose id matches
saveEditTodo(t) ==
    IF trim(t.editedText) = <<>>
    THEN [t EXCEPT !.isEditing = FALSE, !.editedText = t.text]
    ELSE [t EXCEPT !.text = trim(t.editedText), !.isEditing = FALSE,
                   !.editedText = trim(t.editedText)]

saveEditList(ts, id) ==
    [i \in 1..Len(ts) |-> IF ts[i].id = id THEN saveEditTodo(ts[i]) ELSE ts[i]]

\* a saveEdit that clears the message when no task matches
saveEditMsgClears(ts, id, msg) ==
    IF \E i \in 1..Len(ts) : ts[i].id = id
    THEN LET last == CHOOSE i \in 1..Len(ts) :
                        /\ ts[i].id = id
                        /\ \A j \in (i + 1)..Len(ts) : ts[j].id # id
         IN  IF trim(ts[last].editedText) = <<>> THEN MsgEmptyEdit ELSE MsgNone
    ELSE MsgNone

\* MSG after saveEdit: the callback assigns it for each matching task, in order
saveEditMsg(ts, id, msg) ==
    IF \E i \in 1..Len(ts) : ts[i].id = id
    THEN LET last == CHOOSE i \in 1..Len(ts) :
                        /\ ts[i].id = id
                        /\ \A j \in (i + 1)..Len(ts) : ts[j].id # id
         IN  IF trim(ts[last].editedText) = <<>> THEN MsgEmptyEdit ELSE MsgNone
    ELSE msg

saveEdit(id) ==
    /\ todos' = saveEditList(todos, id)
    /\ MSG' = saveEditMsg(todos, id, MSG)
    /\ Persist
    /\ UNCHANGED <<filter, newTodoText, draggedTodoId, hoveredTodoId, clock>>
    /\ PageStays

\* what cancelEdit's callback returns for a task
cancelEditTodo(t, id) ==
    IF t.id = id THEN [t EXCEPT !.isEditing = FALSE, !.editedText = t.text] ELSE t

cancelEditList(ts, id) == [i \in 1..Len(ts) |-> cancelEditTodo(ts[i], id)]

cancelEdit(id) ==
    /\ todos' = cancelEditList(todos, id)
    /\ MSG' = MsgNone
    /\ Persist
    /\ UNCHANGED <<filter, newTodoText, draggedTodoId, hoveredTodoId, clock>>
    /\ PageStays

---------------------------------------------------------------------------
(* Theme *)

Themes == {"light", "dark"}

\* let current_theme = $state("light") in the page with editing,
\* $state(".light") in the page without
initialTheme(v) == IF v = "edit" THEN "light" ELSE ".light"

\* current_theme = current_theme === "light" ? "dark" : "light"
toggledTheme(t) == IF t = "light" THEN "dark" ELSE "light"

\* a toggle that does not save the preference
toggleThemeUnsaved ==
    /\ phase = "ready"
    /\ current_theme' = toggledTheme(current_theme)
    /\ UNCHANGED <<todos, filter, MSG, newTodoText, draggedTodoId, hoveredTodoId,
                   clock, stored, phase, variant, consoleError, storedTheme>>

toggleTheme ==
    /\ phase = "ready"
    /\ current_theme' = toggledTheme(current_theme)
    /\ storedTheme' = current_theme'
    /\ UNCHANGED <<todos, filter, MSG, newTodoText, draggedTodoId, hoveredTodoId,
                   clock, stored, phase, variant, consoleError>>

\* onMount: the theme after the stored preference has been read
mountedTheme(saved, t) == IF saved = "light" \/ saved = "dark" THEN saved ELSE t

---------------------------------------------------------------------------
(* Page life cycle: the component script (declarations and hydration), then *)
(* the first run of the effects (the saving $effect and onMount)            *)

\* what localStorage can hold under "todos" besides a JSON array of records:
\* nothing, the empty string, a string JSON.parse throws on, and JSON that is
\* no array (.map is not a function)
NoTodos       == [kind |-> "absent", value |-> <<>>]
EmptyTodos    == [kind |-> "empty", value |-> <<>>]
CorruptTodos  == [kind |-> "corrupt", value |-> <<>>]
NotArrayTodos == [kind |-> "notarray", value |-> <<>>]

\* a hydration that loads every task as not completed
hydrateTodoUnchecked(r) ==
    [id |-> r.id, text |-> r.text, completed |-> FALSE,
     isEditing |-> FALSE, editedText |-> r.text]

\* ({ ...todo, isEditing: false, editedText: todo.text })
hydrateTodo(r) ==
    [id |-> r.id, text |-> r.text, completed |-> r.completed,
     isEditing |-> FALSE, editedText |-> r.text]

\* if (stored) { try { ... } catch { ... } }: does the try block throw
hydrationThrows(st) == st.kind \in {"corrupt", "notarray"}

\* a hydration that takes isEditing and editedText from the stored record
\* when it has them
hydratedTodosAsStored(st) ==
    IF st.kind = "json"
    THEN [i \in 1..Len(st.value) |->
            IF "isEditing" \in DOMAIN st.value[i]
            THEN st.value[i]
            ELSE hydrateTodo(st.value[i])]
    ELSE <<>>

\* todos after the hydration block
hydratedTodos(st) ==
    IF st.kind = "json"
    THEN [i \in 1..Len(st.value) |-> hydrateTodo(st.value[i])]
    ELSE <<>>

\* a catch block that logs and leaves the item in place
hydratedStoreKeeps(st) == st

\* the item "todos" after the hydration block: removed in the catch
hydratedStore(st) == IF hydrationThrows(st) THEN NoTodos ELSE st

\* the page without editing has no removeItem in its catch block
openedStore(v, st) == IF v = "edit" THEN hydratedStore(st) ELSE st

\* a stored value written by a page that saved the transient fields too
LegacyTodos ==
    [kind |-> "json",
     value |-> <<[id |-> StartTime, text |-> <<"a">>, completed |-> TRUE,
                  isEditing |-> TRUE, editedText |-> <<"b", SPC>>]>>]

\* the values of the item "todos" a page can be opened on
StartStores == {NoTodos, EmptyTodos, CorruptTodos, NotArrayTodos, LegacyTodos}

\* the values of the item "theme" a page can be opened on
StartThemes == {NoItem, "light", "dark", "blue"}

\* the page is opened, or reloaded: the script runs on fresh state
OpenPage ==
    /\ phase \in {"closed", "ready"}
    /\ todos' = hydratedTodos(stored)
    /\ stored' = openedStore(variant, stored)
    /\ consoleError' = hydrationThrows(stored)
    /\ filter' = "all"
    /\ MSG' = MsgNone
    /\ newTodoText' = <<>>
    /\ draggedTodoId' = null
    /\ hoveredTodoId' = null
    /\ current_theme' = initialTheme(variant)
    /\ phase' = "mounting"
    /\ UNCHANGED <<clock, storedTheme, variant>>

\* the effects run once the component is mounted
Mounted ==
    /\ phase = "mounting"
    /\ stored' = todosToSave(todos)
    /\ current_theme' = mountedTheme(storedTheme, current_theme)
    /\ phase' = "ready"
    /\ UNCHANGED <<todos, filter, MSG, newTodoText, draggedTodoId, hoveredTodoId,
                   clock, storedTheme, variant, consoleError>>

---------------------------------------------------------------------------

(* Specifications.  Each takes the handlers of one part of the page; the   *)
(* handlers left out of a specification do not act in its behaviours.      *)

\* the new-task input and its Add button
AddEvents ==
    \/ \E s \in NewInputs : TypeNewTodo(s)
    \/ addTodo

\* the checkbox and the remove button of a row
RowEvents ==
    \/ \E id \in Ids : removeTodo(id)
    \/ \E id \in Ids : toggleChecked(id)

FilterEvents == \E f \in Filters : SetFilter(f)

DragEvents ==
    \/ \E id \in Ids : handleDragStart(id)
    \/ \E id \in Ids : handleDrop(id)

EditEvents ==
    \/ \E id \in Ids : editTodo(id)
    \/ \E i \in 1..MaxTodos, s \in EditInputs : TypeEdit(i, s)
    \/ \E id \in Ids : saveEdit(id)
    \/ \E id \in Ids : cancelEdit(id)

\* adding, removing, completing, filtering and reordering tasks
Next == AddEvents \/ RowEvents \/ FilterEvents \/ DragEvents

Spec == Init /\ [][Next]_vars

\* adding, removing and editing tasks
NextEdit == AddEvents \/ (\E id \in Ids : removeTodo(id)) \/ EditEvents

SpecEdit == Init /\ [][NextEdit]_vars

\* the new-task input and its Add button, on a shorter collection
AddEventsFew ==
    \/ \E s \in NewInputs : TypeNewTodo(s)
    \/ addTodoRejected
    \/ \E now \in clock..FewClock : Len(todos) < FewTodos /\ addTodoAccepted(now)

\* the new-task input and its Add button, on inputs that addTodo accepts
AddEventsAccepted ==
    \/ TypeNewTodo(<<SPC, "a", SPC>>)
    \/ \E now \in clock..FewClock : Len(todos) < FewTodos /\ addTodoAccepted(now)

\* no page is open; the store holds what an earlier page, or something else, left
InitClosed ==
    /\ todos = <<>>
    /\ filter = "all"
    /\ MSG = MsgNone
    /\ newTodoText = <<>>
    /\ draggedTodoId = null
    /\ hoveredTodoId = null
    /\ clock = StartTime
    /\ stored \in StartStores
    /\ phase = "closed"
    /\ current_theme = "light"
    /\ storedTheme = NoItem
    /\ variant = "edit"
    /\ consoleError = FALSE

\* opening and reloading the page, between adding, removing and editing tasks
NextReload == OpenPage \/ Mounted \/ AddEventsAccepted \/ RowEvents \/ EditEvents

SpecReload == InitClosed /\ [][NextReload]_vars

\* no page is open; either page component is deployed, on any stored theme
InitTheme ==
    /\ todos = <<>>
    /\ filter = "all"
    /\ MSG = MsgNone
    /\ newTodoText = <<>>
    /\ draggedTodoId = null
    /\ hoveredTodoId = null
    /\ clock = StartTime
    /\ stored = NoTodos
    /\ phase = "closed"
    /\ current_theme = "light"
    /\ storedTheme \in StartThemes
    /\ variant \in {"edit", "simple"}
    /\ consoleError = FALSE

\* the theme button, with the events that are the same in both page components
\* and touch no task
NextTheme ==
    \/ OpenPage
    \/ Mounted
    \/ toggleTheme
    \/ \E s \in NewInputs : TypeNewTodo(s)
    \/ addTodoRejected
    \/ FilterEvents

SpecTheme == InitTheme /\ [][NextTheme]_vars

\* every handler that assigns MSG or changes the collection
NextMessage ==
    \/ AddEventsFew
    \/ RowEvents
    \/ DragEvents
    \/ \E id \in Ids : editTodo(id)
    \/ \E i \in 1..MaxTodos : TypeEdit(i, <<SPC>>)
    \/ \E id \in Ids : saveEdit(id)
    \/ \E id \in Ids : cancelEdit(id)

SpecMessage == Init /\ [][NextMessage]_vars

\* every handler but the drag handlers, on accepted inputs only
NextOrder ==
    \/ AddEventsAccepted
    \/ RowEvents
    \/ FilterEvents
    \/ toggleTheme
    \/ \E id \in Ids : editTodo(id)
    \/ \E i \in 1..MaxTodos : TypeEdit(i, <<"b", SPC>>)
    \/ \E id \in Ids : saveEdit(id)
    \/ \E id \in Ids : cancelEdit(id)

SpecOrder == Init /\ [][NextOrder]_vars

\* every drag handler of a row
HoverEvents ==
    \/ \E id \in Ids : handleDragOver(id)
    \/ \E id \in Ids : handleDragLeave(id)
    \/ handleDragEnd

\* dragging rows over each other, between adding and removing tasks
NextHover == AddEventsAccepted \/ RowEvents \/ DragEvents \/ HoverEvents

SpecHover == Init /\ [][NextHover]_vars

\* dragging and editing rows, in any order of the events
NextDragEdit ==
    \/ TypeNewTodo(<<SPC, "a", SPC>>)
    \/ \E now \in clock..MaxClock : addTodoAccepted(now)
    \/ DragEvents
    \/ handleDragEnd
    \/ \E id \in Ids : editTodo(id)
    \/ \E i \in 1..MaxTodos : TypeEdit(i, <<"b", SPC>>)
    \/ \E id \in Ids : saveEdit(id)
    \/ \E id \in Ids : cancelEdit(id)

SpecDragEdit == Init /\ [][NextDragEdit]_vars

---------------------------------------------------------------------------
(* Shared vocabulary of the properties *)

Indices(ts) == 1..Len(ts)

Last(ts) == ts[Len(ts)]

Range(ts) == { ts[i] : i \in Indices(ts) }

\* the subsequence of ts made of its elements at the indices in S, in order
RECURSIVE Restrict(_, _)
Restrict(ts, S) ==
    IF ts = <<>> THEN <<>>
    ELSE LET n == Len(ts)
             r == Restrict(SubSeq(ts, 1, n - 1), S)
         IN  IF n \in S THEN Append(r, ts[n]) ELSE r

\* how many times t occurs in ts
Count(ts, t) == Cardinality({ i \in Indices(ts) : ts[i] = t })

SameTasks(ts, us) ==
    /\ Len(ts) = Len(us)
    /\ \A t \in Range(ts) \cup Range(us) : Count(ts, t) = Count(us, t)

---------------------------------------------------------------------------
(* C1: in every reachable state no two tasks of the collection have the    *)
(* same id, for any timing of the add events with a non-decreasing clock.  *)

C1_IdsUnique ==
    \A i, j \in Indices(todos) : i # j => todos[i].id # todos[j].id

---------------------------------------------------------------------------
(* C2: in every reachable state at most one task has isEditing = true:     *)
(* editTodo(id) leaves the task with that id editing and no other, and no  *)
(* other operation puts a task in edit mode.                               *)

C2_SingleEditor ==
    Cardinality({ i \in Indices(todos) : todos[i].isEditing }) <= 1

---------------------------------------------------------------------------
\* what an accepted add leaves behind
C3_AddPost ==
    /\ Len(todos') = Len(todos) + 1
    /\ SubSeq(todos', 1, Len(todos)) = todos
    /\ Last(todos').text = trim(newTodoText)
    /\ newTodoText = <<SPC, "a", SPC>> => Last(todos').text = <<"a">>
    /\ Last(todos').completed = FALSE
    /\ Last(todos').isEditing = FALSE
    /\ MSG' = MsgNone
    /\ newTodoText' = <<>>

(* C3: when the trimmed input buffer is non-empty, addTodo lengthens the   *)
(* collection by exactly one, keeps the existing tasks as a prefix, makes  *)
(* the new task the last element with text = the trimmed buffer, not       *)
(* completed and not editing, clears the validation message and clears     *)
(* the input buffer.                                                       *)

C3_AddAppends ==
    [][(addTodo /\ trim(newTodoText) # <<>>) => C3_AddPost]_vars

\* a third task was just appended, after a completed one; buffer and message are clear
C3_Witness ==
    /\ Len(todos) = 3
    /\ todos[3].id = clock
    /\ todos[3].text = <<"a">>
    /\ ~todos[3].completed
    /\ todos[1].completed
    /\ newTodoText = <<>>
    /\ MSG = MsgNone

---------------------------------------------------------------------------
(* C4: when the input buffer is empty or only whitespace, addTodo leaves   *)
(* the collection, the persisted value and the input buffer unchanged and  *)
(* sets the validation message to the non-empty "Please enter a task".     *)

C4_AddRejects ==
    [][(addTodo /\ trim(newTodoText) = <<>>) =>
            /\ todos' = todos
            /\ stored' = stored
            /\ newTodoText' = newTodoText
            /\ MSG' = "Please enter a task"
            /\ MSG' # ""]_vars

\* a whitespace-only buffer was rejected on a non-empty collection
C4_Witness ==
    /\ newTodoText = <<SPC>>
    /\ MSG = MsgEnterTask
    /\ Len(todos) = 2

---------------------------------------------------------------------------
\* what removeTodo(id) leaves behind
C5_RemovePost(id) ==
    \E S \in SUBSET Indices(todos) :
        /\ { i \in Indices(todos) : todos[i].id # id } \subseteq S
        /\ Cardinality(S) >= Len(todos) - 1
        /\ todos' = Restrict(todos, S)

(* C5: removeTodo(id) shortens the collection by at most one, removes no   *)
(* task whose id differs from the argument, and keeps the remaining tasks  *)
(* in their previous relative order with unchanged fields.                 *)

C5_RemoveAtMostOne ==
    [][\A id \in Ids : removeTodo(id) => C5_RemovePost(id)]_vars

---------------------------------------------------------------------------
(* C6: for every task t of a reachable collection, toggleChecked(t.id)     *)
(* twice in a row gives back the collection; each call flips completed on  *)
(* t and changes nothing else, in t or in any other task.                  *)

C6_ToggleTwice ==
    \A i \in Indices(todos) :
        LET id == todos[i].id
            once == toggleCheckedList(todos, id)
        IN  /\ toggleCheckedList(once, id) = todos
            /\ once = [todos EXCEPT ![i].completed = ~todos[i].completed]

---------------------------------------------------------------------------
\* the parts of the statement on the filtered view
C7_ExpectedIndices(ts, f) ==
    CASE f = "all"        -> Indices(ts)
      [] f = "completed"  -> { i \in Indices(ts) : ts[i].completed = TRUE }
      [] f = "incomplete" -> { i \in Indices(ts) : ts[i].completed = FALSE }

C7_ViewIsProjection ==
    /\ filteredTodos = Restrict(todos, C7_ExpectedIndices(todos, filter))
    /\ \A f \in Filters :
          filteredTodosOf(todos, f) = Restrict(todos, C7_ExpectedIndices(todos, f))
    /\ LET done == filteredTodosOf(todos, "completed")
           open == filteredTodosOf(todos, "incomplete")
       IN  /\ Range(done) \cap Range(open) = {}
           /\ Range(done) \cup Range(open) = Range(todos)
           /\ Len(done) + Len(open) = Len(todos)

C7_FilterKeepsCollection ==
    \A f \in Filters : SetFilter(f) => (filter' = f /\ todos' = todos /\ stored' = stored)

(* C7: the filtered view is the subsequence of the collection, in          *)
(* collection order, of all tasks (all), of the completed tasks            *)
(* (completed) or of the tasks not completed (incomplete); the completed   *)
(* and incomplete views are disjoint and together hold every task;         *)
(* changing the filter changes neither the collection nor the persisted    *)
(* value.                                                                  *)

---------------------------------------------------------------------------
\* the single-element move of the task at p to the index q
C8_DropPost(p, q) ==
    /\ Len(todos') = Len(todos)
    /\ todos'[q] = todos[p]
    /\ spliceOut(todos', q) = spliceOut(todos, p)

(* C8: a drag started on task a and dropped on a different task b, both in *)
(* the collection, moves a to the index b had before the drop, and all     *)
(* other tasks keep their relative order.  The handlers are given the id   *)
(* of the row the event fired on: a is a task with the dragged id, b the   *)
(* task whose id the drop is given.                                        *)

C8_DropMoves ==
    [][\A p, q \in Indices(todos) :
            (p # q /\ todos[p].id = draggedTodoId /\ handleDrop(todos[q].id))
                => C8_DropPost(p, q)]_vars

---------------------------------------------------------------------------
(* C9: every drop keeps the tasks of the collection: the same length and   *)
(* the same tasks with the same id, text, completed, isEditing and         *)
(* editedText; only positions change, and nothing changes when the         *)
(* dragged id is the target id.                                            *)

C9_DropKeepsTasks ==
    [][\A id \in Ids : handleDrop(id) =>
            /\ SameTasks(todos, todos')
            /\ draggedTodoId = id => todos' = todos]_vars

\* a drop has moved a task: ids are appended in non-decreasing order
C9_Witness ==
    /\ Len(todos) = 3
    /\ todos[1].id > todos[3].id
    /\ draggedTodoId = null

---------------------------------------------------------------------------
\* the cases in which a drop moves nothing
C10_NoMove(id) ==
    \/ draggedTodoId = null
    \/ \A i \in Indices(todos) : todos[i].id # draggedTodoId
    \/ \A i \in Indices(todos) : todos[i].id # id
    \/ draggedTodoId = id

(* C10: handleDrop leaves the collection unchanged when no drag is in      *)
(* progress, when the dragged id is not in the collection, when the        *)
(* target id is not in the collection, or when dragged id = target id.     *)

C10_DropNoOp ==
    [][\A id \in Ids : (handleDrop(id) /\ C10_NoMove(id)) =>
            (todos' = todos /\ stored' = stored)]_vars

\* a drag is in progress on a task that was removed after drag-start
C10_Witness ==
    /\ draggedTodoId # null
    /\ Len(todos) = 2
    /\ \A i \in Indices(todos) : todos[i].id # draggedTodoId
    /\ clock = MaxClock

---------------------------------------------------------------------------
\* the stored value is the JSON array of the records of ts, in order
C11_IsSerialization(st, ts) ==
    /\ st.kind = "json"
    /\ Len(st.value) = Len(ts)
    /\ \A i \in Indices(ts) :
          /\ DOMAIN st.value[i] = {"id", "text", "completed"}
          /\ st.value[i].id = ts[i].id
          /\ st.value[i].text = ts[i].text
          /\ st.value[i].completed = ts[i].completed

(* C11: after startup and after every completed operation, the value       *)
(* stored under "todos" is the serialization of the current collection in  *)
(* its current order, each record holding exactly id, text and completed,  *)
(* and so neither isEditing nor editedText.                                *)

C11_WriteThrough == phase = "ready" => C11_IsSerialization(stored, todos)

\* the page was opened on a stored record with transient fields and saved it
\* again, with a second task in edit mode and a typed buffer
C11_Witness ==
    /\ phase = "ready"
    /\ Len(todos) = 2
    /\ todos[1].id = StartTime /\ todos[1].completed
    /\ todos[2].isEditing
    /\ todos[2].editedText = <<"b", SPC>>
    /\ stored.kind = "json" /\ Len(stored.value) = 2

---------------------------------------------------------------------------
\* the persisted fields of the tasks, in order
C12_Persistent(ts) == [i \in Indices(ts) |-> stripTransient(ts[i])]

(* C12: reloading the page after any sequence of operations gives a        *)
(* collection with the same tasks in the same order, with equal id, text   *)
(* and completed, as just before the reload, and the filter all; the       *)
(* effects that run at mount change neither.                               *)

---------------------------------------------------------------------------
\* the page mounts, and the handlers can be called on a page whose hydration
\* has caught an error
C13_Usable ==
    /\ phase = "mounting" => ENABLED Mounted
    /\ (phase = "ready" /\ consoleError) =>
          /\ ENABLED TypeNewTodo(IF newTodoText = <<>> THEN <<SPC>> ELSE <<>>)
          /\ ENABLED addTodo
          /\ \A id \in Ids :
                /\ ENABLED removeTodo(id)
                /\ ENABLED toggleChecked(id)
                /\ ENABLED editTodo(id)
                /\ ENABLED saveEdit(id)
                /\ ENABLED cancelEdit(id)

C13_FailsOpen ==
    /\ (hydrationThrows(stored) /\ OpenPage) =>
          /\ todos' = <<>>
          /\ stored' = NoTodos
          /\ consoleError'
    /\ (stored \in {NoTodos, EmptyTodos} /\ OpenPage) =>
          /\ todos' = <<>>
          /\ ~consoleError'

(* C13: when the value stored under "todos" at startup cannot be parsed    *)
(* as a sequence of task records (JSON.parse throws, or the value is no    *)
(* array), hydration catches the error, removes the stored value and       *)
(* leaves the collection empty, the page mounts, and the handlers can be   *)
(* called afterwards; when the key is absent or holds the empty string     *)
(* the collection starts empty as well.                                    *)

---------------------------------------------------------------------------
\* what a rejected saveEdit leaves behind, for the task at index i
C14_RejectPost(i) ==
    /\ Len(todos') = Len(todos)
    /\ todos'[i].text = todos[i].text
    /\ todos'[i].isEditing = FALSE
    /\ todos'[i].editedText = todos[i].text
    /\ todos'[i].id = todos[i].id
    /\ todos'[i].completed = todos[i].completed
    /\ MSG' = "Task cannot be empty. Edit cancelled."
    /\ \A j \in Indices(todos) : j # i => todos'[j] = todos[j]

(* C14: saveEdit(id) on a task whose buffer is empty or only whitespace    *)
(* leaves the task's text unchanged, sets isEditing to false and           *)
(* editedText to the text, sets the validation message to "Task cannot be  *)
(* empty. Edit cancelled.", and changes no other task.                     *)

C14_SaveRejects ==
    [][\A i \in Indices(todos) :
            (saveEdit(todos[i].id) /\ trim(todos[i].editedText) = <<>>)
                => C14_RejectPost(i)]_vars

---------------------------------------------------------------------------
\* a text is non-empty and has no whitespace at either end
C15_IsTrimmed(text) == text # <<>> /\ trim(text) = text

C15_TextsTrimmed == \A i \in Indices(todos) : C15_IsTrimmed(todos[i].text)

\* what a committing saveEdit leaves behind, for the task at index i
C15_CommitPost(i) ==
    /\ Len(todos') = Len(todos)
    /\ todos'[i].text = trim(todos[i].editedText)
    /\ todos'[i].isEditing = FALSE
    /\ todos'[i].id = todos[i].id
    /\ todos'[i].completed = todos[i].completed
    /\ MSG' = ""
    /\ \A j \in Indices(todos) : j # i => todos'[j] = todos[j]

(* C15: in every state reachable from an empty store every task's text is *)
(* non-empty and has no leading or trailing whitespace; saveEdit(id) on a  *)
(* task whose trimmed buffer is non-empty sets the task's text to the      *)
(* trimmed buffer, clears isEditing and the validation message, and        *)
(* changes neither id, completed or position of the task nor any other     *)
(* task.                                                                   *)

C15_TrimmedTexts ==
    /\ []C15_TextsTrimmed
    /\ [][\A i \in Indices(todos) :
              (saveEdit(todos[i].id) /\ trim(todos[i].editedText) # <<>>)
                  => C15_CommitPost(i)]_vars

---------------------------------------------------------------------------
\* the page has started without a usable stored theme
C16_DefaultsToLight ==
    (Mounted /\ storedTheme \notin Themes) =>
        /\ current_theme' = "light"
        /\ toggledTheme(current_theme') = "dark"

(* C16: in both page components, when no theme is stored or the stored     *)
(* theme is neither "light" nor "dark", the theme after startup is         *)
(* "light", so that the first toggleTheme gives "dark"; the current theme  *)
(* of a started page is always "light" or "dark".                          *)

C16_ThemeIsValid ==
    /\ [](phase = "ready" => current_theme \in Themes)
    /\ [][C16_DefaultsToLight]_vars

---------------------------------------------------------------------------
(* C17: removeTodo is idempotent: for every collection and id,             *)
(* removeTodo(id) twice gives the collection removeTodo(id) gives once;    *)
(* after a removeTodo(id) step a second call is possible and changes       *)
(* neither the collection nor the stored value, whether or not a task had  *)
(* the id.                                                                 *)

C17_RemoveIdempotent ==
    /\ [](\A id \in Ids :
            removeTodoList(removeTodoList(todos, id), id) = removeTodoList(todos, id))
    /\ [][\A id \in Ids : removeTodo(id) =>
            /\ removeTodoList(todos', id) = todos'
            /\ todosToSave(removeTodoList(todos', id)) = stored']_vars

\* the task created last was removed, two tasks with other ids remain
C17_Witness ==
    /\ Len(todos) = 2
    /\ clock = MaxClock
    /\ \A i \in Indices(todos) : todos[i].id < clock
    /\ todos[1].id # todos[2].id
    /\ draggedTodoId = null

---------------------------------------------------------------------------
\* a step that changes the collection: a successful addTodo, a removeTodo or
\* toggleChecked of a present task, a drop that moves a task, a committing
\* saveEdit
C18_SuccessfulMutation ==
    \/ \E now \in Ids : addTodoAccepted(now)
    \/ \E id \in Ids : removeTodo(id) /\ findIndex(todos, id) # 0
    \/ \E id \in Ids : toggleChecked(id) /\ findIndex(todos, id) # 0
    \/ \E id \in Ids : handleDrop(id) /\ todos' # todos
    \/ \E i \in Indices(todos) :
          saveEdit(todos[i].id) /\ trim(todos[i].editedText) # <<>>

(* C18: once a validation message has been set, the next operation that    *)
(* successfully mutates the collection (a successful addTodo, a removeTodo *)
(* or toggleChecked of a present task, a drop that moves a task, a         *)
(* committing saveEdit) leaves the validation message empty.               *)

C18_NextSuccessClears == [][C18_SuccessfulMutation => MSG' = ""]_vars

\* saveEdit(id) in which the last task with that id commits its buffer
C18_LastCommits(id) ==
    /\ saveEdit(id)
    /\ \E i \in Indices(todos) :
          /\ todos[i].id = id
          /\ \A j \in Indices(todos) : j > i => todos[j].id # id
          /\ trim(todos[i].editedText) # <<>>

(* C18, amended: the validation message is cleared by a successful         *)
(* addTodo, by cancelEdit, and by a saveEdit(id) in which the last task    *)
(* with that id commits; removeTodo, toggleChecked and a drop leave the    *)
(* message as it was, also when they change the collection.  Stated by     *)
(* the steps' outcome: a step that leaves a message is none of the first   *)
(* three, a step that changes the message none of the last three.          *)

C18_ClearedByAddAndEdit ==
    [][/\ MSG' # "" =>
             /\ \A now \in Ids : ~addTodoAccepted(now)
             /\ \A id \in Ids : ~cancelEdit(id)
             /\ \A id \in Ids : ~C18_LastCommits(id)
       /\ MSG' # MSG =>
             \A id \in Ids : ~(removeTodo(id) \/ toggleChecked(id) \/ handleDrop(id))]_vars

\* a rejected saveEdit set the message, then the last task was removed: the
\* message is still shown
C18_Witness ==
    /\ MSG = MsgEmptyEdit
    /\ todos = <<>>

---------------------------------------------------------------------------
\* the ids of the tasks, in collection order
C19_IdSeq(ts) == [i \in Indices(ts) |-> ts[i].id]

\* ids that belonged to a task that was removed: the clock is only read by
\* an accepted addTodo, which gives the reading to the new task, so a reading
\* after StartTime that no task carries was the id of a removed task
C19_RemovedIds ==
    IF clock > StartTime /\ \A i \in Indices(todos) : todos[i].id # clock
    THEN {clock}
    ELSE {}

(* C19: ids are never reassigned or reused: no step gives a task an id     *)
(* other than the ids already in the collection and the id of a newly      *)
(* added task, and addTodo never gives a new task an id that belonged to   *)
(* a removed task.                                                         *)

C19_IdsNotReused ==
    [][/\ Range(C19_IdSeq(todos')) \subseteq Range(C19_IdSeq(todos)) \cup {clock'}
       /\ \A now \in Ids : addTodoAccepted(now) => now \notin C19_RemovedIds]_vars

---------------------------------------------------------------------------
\* the handlers said to leave the sequence of ids as it was
C20_KeepsOrder ==
    \/ \E id \in Ids : toggleChecked(id)
    \/ \E id \in Ids : editTodo(id)
    \/ \E id \in Ids : saveEdit(id)
    \/ \E id \in Ids : cancelEdit(id)
    \/ \E f \in Filters : SetFilter(f)
    \/ toggleTheme

\* us is ts without some of its elements, the others in their order
C20_IsSubsequence(us, ts) == \E S \in SUBSET Indices(ts) : us = Restrict(ts, S)

(* C20: the order of the collection changes only by append and by drop:    *)
(* toggleChecked, editTodo, saveEdit, cancelEdit, a filter change and      *)
(* toggleTheme leave the sequence of task ids as it was, removeTodo leaves *)
(* the remaining ids in their relative order, and every step that is not   *)
(* a drop keeps the sequence of ids, appends one id to it, or takes ids    *)
(* out of it.  The first part is stated by the steps' outcome: a step     *)
(* that changes the sequence of ids is none of those handlers.             *)

---------------------------------------------------------------------------
\* no task is in edit mode and every buffer holds the task's text
C21_NoEditInProgress(ts) ==
    \A i \in Indices(ts) : ~ts[i].isEditing /\ ts[i].editedText = ts[i].text

(* C21: immediately after hydration no task is in edit mode and every      *)
(* task's editedText equals its text, whatever the stored records held;    *)
(* an edit in progress at a reload is discarded: the task comes back with  *)
(* its last committed text.                                                *)

C21_HydrationResetsEdits ==
    [][OpenPage =>
          /\ C21_NoEditInProgress(todos')
          /\ phase = "ready" =>
                /\ Len(todos') = Len(todos)
                /\ \A i \in Indices(todos) : todos'[i].text = todos[i].text]_vars

\* the page has just been opened on a stored record that says isEditing: true
C21_Witness ==
    /\ phase = "mounting"
    /\ stored = LegacyTodos
    /\ Len(todos) = 1
    /\ todos[1].text = <<"a">>
    /\ ~todos[1].isEditing

---------------------------------------------------------------------------
\* what cancelEdit leaves behind when called for the task at index i
C22_CancelPost(i) ==
    /\ Len(todos') = Len(todos)
    /\ \A j \in Indices(todos) :
          /\ todos'[j].id = todos[j].id
          /\ todos'[j].text = todos[j].text
          /\ todos'[j].completed = todos[j].completed
    /\ todos'[i].isEditing = FALSE
    /\ todos'[i].editedText = todos[i].text
    /\ \A j \in Indices(todos) : j # i => todos'[j] = todos[j]
    /\ MSG' = ""

(* C22: cancelEdit(id) never changes the text, completed, id or position   *)
(* of any task; for the target task it sets isEditing to false and         *)
(* editedText to the task's text whatever the buffer held, an empty        *)
(* buffer included; it leaves every other task unchanged and clears the    *)
(* validation message.                                                     *)

C22_CancelFrame ==
    [][\A i \in Indices(todos) : cancelEdit(todos[i].id) => C22_CancelPost(i)]_vars

---------------------------------------------------------------------------
(* C23: handleDragStart on a task in edit mode does not set draggedTodoId  *)
(* to that task, and a drop with no drag in progress, as after such a      *)
(* suppressed drag-start, leaves the collection as it was.  The handler is *)
(* given the id of the row the event fired on.                             *)

C23_NoDragWhileEditing ==
    [][/\ \A i \in Indices(todos) :
             todos[i].isEditing => ~handleDragStart(todos[i].id)
       /\ \A id \in Ids :
             (draggedTodoId = null /\ handleDrop(id)) => todos' = todos]_vars

---------------------------------------------------------------------------
\* drop and drag-end clear both ids; no drag handler but a drop changes the
\* collection or the stored value
C24_DropAndEndClear ==
    /\ \A id \in Ids : handleDrop(id) => (draggedTodoId' = null /\ hoveredTodoId' = null)
    /\ handleDragEnd => (draggedTodoId' = null /\ hoveredTodoId' = null)
    /\ \A id \in Ids :
          (handleDragStart(id) \/ handleDragOver(id) \/ handleDragLeave(id))
              => (todos' = todos /\ stored' = stored)
    /\ handleDragEnd => (todos' = todos /\ stored' = stored)

\* hovering the dragged task itself clears the hovered id
C24_OverSelfClears ==
    draggedTodoId # null => hoveredAfterOver(draggedTodoId, draggedTodoId) = null

(* C24: after handleDrop, in every branch, and after handleDragEnd both    *)
(* draggedTodoId and hoveredTodoId are null; after handleDragLeave(id),    *)
(* for any row id, hoveredTodoId is null; handleDragOver on the dragged    *)
(* task sets hoveredTodoId to null; no drag handler other than a drop      *)
(* that moves a task changes the collection.                               *)

C24_DragStateCleared ==
    /\ [](\A id \in Ids : hoveredAfterLeave(hoveredTodoId, id) = null)
    /\ []C24_OverSelfClears
    /\ [][C24_DropAndEndClear]_vars

(* C24, amended: as C24, except that handleDragLeave(id) clears            *)
(* hoveredTodoId only when it is id, the row being left, and leaves it as  *)
(* it was otherwise.                                                       *)

C24_LeaveClearsOwnRow ==
    /\ [](\A id \in Ids :
            hoveredAfterLeave(hoveredTodoId, id) =
                (IF hoveredTodoId = id THEN null ELSE hoveredTodoId))
    /\ []C24_OverSelfClears
    /\ [][/\ C24_DropAndEndClear
          /\ \A id \in Ids : handleDragLeave(id) =>
                (hoveredTodoId = id /\ hoveredTodoId' = null)]_vars

\* a drag is in progress over another row than the dragged one, on a
\* collection of two tasks: leaving the dragged row changes nothing
C24_Witness ==
    /\ Len(todos) = 2
    /\ draggedTodoId = todos[1].id
    /\ hoveredTodoId = todos[2].id
    /\ draggedTodoId # hoveredTodoId
    /\ hoveredAfterLeave(hoveredTodoId, draggedTodoId) = hoveredTodoId

---------------------------------------------------------------------------
\* the other one of the two themes
C25_Other(t) == CHOOSE u \in Themes : u # t

\* what toggleTheme leaves behind
C25_TogglePost ==
    /\ current_theme \in Themes
    /\ current_theme' = C25_Other(current_theme)
    /\ toggledTheme(current_theme') = current_theme
    /\ storedTheme' = current_theme'
    /\ UNCHANGED <<todos, filter, MSG, stored>>

(* C25: toggleTheme flips the theme between "light" and "dark", two        *)
(* toggles giving back the theme; it writes the new theme under "theme",   *)
(* so that the stored theme is the current theme after every toggle; it    *)
(* leaves the collection, the filter, the validation message and the       *)
(* value under "todos" unchanged; no task operation changes the theme or   *)
(* the value under "theme": a step that changes either is a toggleTheme.   *)

C25_ThemeIndependent ==
    /\ [](storedTheme # NoItem => storedTheme = current_theme)
    /\ [][/\ (current_theme' # current_theme \/ storedTheme' # storedTheme) => toggleTheme
          /\ toggleTheme => C25_TogglePost]_vars

\* the theme was toggled twice, between operations on two tasks
C25_Witness ==
    /\ current_theme = "light"
    /\ storedTheme = "light"
    /\ Len(todos) = 2
    /\ todos[1].completed
    /\ todos[2].isEditing

---------------------------------------------------------------------------
\* the ids that match no task
C26_AbsentIds == { id \in Ids : \A i \in Indices(todos) : todos[i].id # id }

\* the four handlers applied to an id that matches no task
C26_NoOpOnAbsent ==
    \A id \in C26_AbsentIds :
        /\ toggleCheckedList(todos, id) = todos
        /\ removeTodoList(todos, id) = todos
        /\ saveEditList(todos, id) = todos
        /\ cancelEditList(todos, id) = todos
        /\ saveEditMsg(todos, id, MSG) = MSG
        /\ ENABLED toggleChecked(id)
        /\ ENABLED removeTodo(id)
        /\ ENABLED saveEdit(id)
        /\ ENABLED cancelEdit(id)

(* C26: for an id that matches no task, toggleChecked(id), removeTodo(id), *)
(* saveEdit(id) and cancelEdit(id) can be called and leave every task,     *)
(* its isEditing and editedText included, and the order of the collection  *)
(* unchanged; toggleChecked, removeTodo and saveEdit leave the validation  *)
(* message unchanged as well.  The steps are stated by their outcome: a   *)
(* step that changes the collection is none of the four on an absent id,   *)
(* a step that changes the message none of the three.                      *)

C26_AbsentIdNoOp ==
    /\ []C26_NoOpOnAbsent
    /\ [][/\ todos' # todos =>
                \A id \in C26_AbsentIds :
                    ~(toggleChecked(id) \/ removeTodo(id) \/ saveEdit(id) \/ cancelEdit(id))
          /\ MSG' # MSG =>
                \A id \in C26_AbsentIds :
                    ~(toggleChecked(id) \/ removeTodo(id) \/ saveEdit(id))]_vars

\* a message is shown and a task is in edit mode with a typed buffer, while
\* the id of a removed task matches nothing
C26_Witness ==
    /\ MSG = MsgEnterTask
    /\ Len(todos) = 1
    /\ todos[1].isEditing
    /\ todos[1].editedText = <<SPC>>
    /\ todos[1].completed
    /\ clock \in C26_AbsentIds

---------------------------------------------------------------------------
(* C27: a task's text changes only through an edit session on that task:   *)
(* saveEdit(id) changes the text of the task only if the task is in edit   *)
(* mode when saveEdit is called; on a task that is not in edit mode, as    *)
(* after editTodo on another task has ended its edit, saveEdit leaves the  *)
(* text unchanged.                                                         *)

C27_SaveNeedsEditMode ==
    [][\A i \in Indices(todos) :
            (saveEdit(todos[i].id) /\ ~todos[i].isEditing)
                => todos'[i].text = todos[i].text]_vars

---------------------------------------------------------------------------
(* C28: a task in edit mode is never the dragged task: in every reachable  *)
(* state, when draggedTodoId is the id of a task of the collection, that   *)
(* task is not in edit mode, and no drop moves a task in edit mode, for    *)
(* any order of drag-start, editTodo, saveEdit, cancelEdit, drop and       *)
(* drag-end.                                                               *)

C28_DraggedNotEditing ==
    /\ [](\A i \in Indices(todos) : todos[i].id = draggedTodoId => ~todos[i].isEditing)
    /\ [][\A id \in Ids :
            (handleDrop(id) /\ todos' # todos) => ~findIsEditing(todos, draggedTodoId)]_vars

---------------------------------------------------------------------------
\* the position in the filtered view of the task at index i of the collection
C29_ViewRank(i) ==
    Cardinality({ j \in C7_ExpectedIndices(todos, filter) : j <= i })

\* the visible task at p takes the view position of the visible task at q
C29_ViewPost(p, q) ==
    LET view  == filteredTodosOf(todos, filter)
        view2 == filteredTodosOf(todos', filter')
    IN  /\ Len(view2) = Len(view)
        /\ view2[C29_ViewRank(q)] = todos[p]
        /\ spliceOut(view2, C29_ViewRank(q)) = spliceOut(view, C29_ViewRank(p))

(* C29: under the filter completed or incomplete, when the dragged task a  *)
(* and the drop target b are both in the filtered view, after the drop a   *)
(* has the position in the filtered view that b had before, and the other  *)
(* visible tasks keep their relative order, also with hidden tasks between *)
(* a and b in the collection.  The handlers are given the ids of the rows  *)
(* the events fired on.                                                    *)

C29_DropInView ==
    [][\A p, q \in C7_ExpectedIndices(todos, filter) :
            (/\ filter # "all"
             /\ p # q
             /\ todos[p].id = draggedTodoId
             /\ handleDrop(todos[q].id))
                => C29_ViewPost(p, q)]_vars

====
